---- MODULE Spec2Model ----
(***************************************************************************)
(* ISS overhead notifier (src/ISS_overhead_project/main1.py).              *)
(*                                                                         *)
(* The program is one sequential loop, main(): fetch the ISS position,     *)
(* test it against the observer's 5-degree box, fetch the sunrise/sunset   *)
(* hours, test for night, send one e-mail per pass, sleep 60 s, repeat.    *)
(*                                                                         *)
(* Spec    models main() step by step (one action per statement group).    *)
(* SpecFn  applies the two pure predicates, is_iss_overhead and is_night,  *)
(*         to inputs drawn from bounded sets.                              *)
(*                                                                         *)
(* Numbers.  Coordinates are fixed-point integers, one unit = 1/10000 of a *)
(* degree (the four decimals of MY_LAT and MY_LONG), so float("26.5458")   *)
(* is 265458 and the literal 5 of is_iss_overhead is 50000.  Hours are the *)
(* integers 0..23.  Python's None is the value None below, outside both    *)
(* ranges.  Credentials are strings; an unset environment variable is      *)
(* NoneStr and an empty one is "".                                         *)
(***************************************************************************)
EXTENDS Integers, Sequences, FiniteSets

VARIABLES
    SENDER_EMAIL,                \* module global, line 20
    RECEIVER_EMAIL,              \* module global, line 21
    EMAIL_PASSWORD,              \* module global, line 22
    send_emails,                 \* main() local, lines 124/127
    email_sent_for_current_pass, \* main() local, line 130: the "notified" flag
    iss_latitude,                \* main() local, line 133
    iss_longitude,               \* main() local, line 133
    sunrise_utc,                 \* main() local, line 141
    sunset_utc,                  \* main() local, line 141
    current_utc_hour,            \* main() local, line 142
    pc,                          \* position of main()
    tick,                        \* observation of the iteration in progress
    log,                         \* observation: one entry per completed iteration
    sends,                       \* observation: calls of send_iss_notification_email
    fn,                          \* SpecFn: the call being evaluated
    fn_done,                     \* SpecFn: the call has returned
    fn_result                    \* SpecFn: its result

vars == << SENDER_EMAIL, RECEIVER_EMAIL, EMAIL_PASSWORD, send_emails,
           email_sent_for_current_pass, iss_latitude, iss_longitude,
           sunrise_utc, sunset_utc, current_utc_hour, pc, tick, log, sends,
           fn, fn_done, fn_result >>

(***************************************************************************)
(* Bounds of the model.                                                    *)
(***************************************************************************)
\* Iterations of the while-loop that are explored.
MaxTicks == 4

\* is_iss_overhead is tried at coordinate differences 0 and
\* +-(5 degrees + e units), e in -MaxEps..MaxEps.
MaxEps == 1

(***************************************************************************)
(* Program constants.                                                      *)
(***************************************************************************)
None == -9999999

NoneStr == "None"

MY_LAT == 265458

MY_LONG == 770197

\* The literal 5 (degrees) of is_iss_overhead.
OverheadRange == 50000

(***************************************************************************)
(* Inputs.                                                                 *)
(***************************************************************************)
\* os.environ.get(...): unset, set to the empty string, or set.
CredentialValues == {NoneStr, "", "user@example.com"}

Hours == 0 .. 23

\* time.gmtime().tm_hour values tried by the loop.
LoopHours == {3, 20}

\* Sunrise/sunset hour pairs the daylight API answers with in the loop:
\* an ordinary window and one that wraps past midnight.
LoopWindows == { <<6, 18>>, <<18, 6>> }

\* ISS positions the position API answers with in the loop: well inside the
\* box, just inside its corner, exactly on its latitude edge, exactly on its
\* longitude edge.
LoopPositions ==
    { << MY_LAT, MY_LONG >>,
      << MY_LAT + OverheadRange - 1, MY_LONG - OverheadRange + 1 >>,
      << MY_LAT + OverheadRange, MY_LONG >>,
      << MY_LAT, MY_LONG - OverheadRange >> }

\* What requests.get(ISS_API_URL) and the parsing of its body can meet.
PositionResponseKinds ==
    {"ok", "transport_error", "missing_keys", "non_numeric", "invalid_json"}

\* What requests.get(SUNRISE_SUNSET_API_URL) and the parsing can meet.
DaylightResponseKinds ==
    {"ok", "transport_error", "malformed", "invalid_json"}

Deltas ==
    {0} \cup { s * (OverheadRange + e) : s \in {-1, 1}, e \in -MaxEps .. MaxEps }

Abs(x) == IF x < 0 THEN -x ELSE x

(***************************************************************************)
(* Pure functions.                                                         *)
(***************************************************************************)
\* Python truthiness of an environment value: None and "" are falsy.
Truthy(s) == s # NoneStr /\ s # ""

\* line 120, negated: all three credentials are set.
CredentialsSet(sender, receiver, password) ==
    ~ (~Truthy(sender) \/ ~Truthy(receiver) \/ ~Truthy(password))

is_iss_overhead_Inclusive(my_lat, my_long, iss_lat, iss_long) ==
    Abs(my_lat - iss_lat) <= OverheadRange /\ Abs(my_long - iss_long) <= OverheadRange

\* lines 67-71
is_iss_overhead(my_lat, my_long, iss_lat, iss_long) ==
    IF Abs(my_lat - iss_lat) < OverheadRange /\ Abs(my_long - iss_long) < OverheadRange
    THEN TRUE
    ELSE FALSE

is_night_NoFallback(sunrise, sunset, hour) ==
    IF sunrise = None \/ sunset = None
    THEN FALSE
    ELSE IF sunset < sunrise
         THEN hour >= sunset \/ hour < sunrise
         ELSE hour >= sunset /\ hour < sunrise

\* lines 74-82
is_night(sunrise, sunset, hour) ==
    IF sunrise = None \/ sunset = None
    THEN TRUE
    ELSE IF sunset < sunrise
         THEN hour >= sunset \/ hour < sunrise
         ELSE hour >= sunset /\ hour < sunrise

\* lines 34-45.  The set of outcomes of get_iss_location on a response:
\* a returned pair, or an exception leaving the function.  Only
\* requests.exceptions.RequestException is caught.  A KeyError (missing
\* keys) and a ValueError (float() of a non-numeric string) are not.  A body
\* that is not JSON raises requests' JSONDecodeError, a RequestException,
\* in requests >= 2.27 and a plain ValueError before that.
get_iss_location(kind, lat, long) ==
    CASE kind = "ok" ->
            { [raised |-> FALSE, lat |-> lat, long |-> long] }
      [] kind = "transport_error" ->
            { [raised |-> FALSE, lat |-> None, long |-> None] }
      [] kind = "invalid_json" ->
            { [raised |-> FALSE, lat |-> None, long |-> None],
              [raised |-> TRUE, lat |-> None, long |-> None] }
      [] OTHER ->
            { [raised |-> TRUE, lat |-> None, long |-> None] }

\* lines 48-64.  As get_iss_location: a KeyError, an IndexError of the
\* split or a ValueError of int() leaves the function.
get_sunrise_sunset_times(kind, sunrise, sunset) ==
    CASE kind = "ok" ->
            { [raised |-> FALSE, sunrise |-> sunrise, sunset |-> sunset] }
      [] kind = "transport_error" ->
            { [raised |-> FALSE, sunrise |-> None, sunset |-> None] }
      [] kind = "invalid_json" ->
            { [raised |-> FALSE, sunrise |-> None, sunset |-> None],
              [raised |-> TRUE, sunrise |-> None, sunset |-> None] }
      [] OTHER ->
            { [raised |-> TRUE, sunrise |-> None, sunset |-> None] }

(***************************************************************************)
(* Observation of one iteration.                                           *)
(*   pos       what the position fetch met ("none": not fetched yet)       *)
(*   avail     line 135 found a position                                   *)
(*   checked   is_iss_overhead was called                                  *)
(*   overhead  its result                                                  *)
(*   daylight  what the daylight fetch met ("none": not fetched)           *)
(*   night     is_night was called and returned True                       *)
(*   sent      send_iss_notification_email was called                      *)
(*   result    how the SMTP session ended ("none": not called)             *)
(*   before    the flag when the iteration began                           *)
(***************************************************************************)
NewTick(flag) ==
    [ pos |-> "none", avail |-> FALSE, checked |-> FALSE, overhead |-> FALSE,
      daylight |-> "none", night |-> FALSE, sent |-> FALSE, result |-> "none",
      before |-> flag ]

\* NA: no position; NO: not overhead; OD: overhead by day; ON: overhead by night.
Kind(t) ==
    IF ~t.avail THEN "NA"
    ELSE IF ~t.overhead THEN "NO"
    ELSE IF t.night THEN "ON"
    ELSE "OD"

LogEntry(t) == [ kind |-> Kind(t), sent |-> t.sent, result |-> t.result ]

NoCall == [ name |-> "none", args |-> << >> ]

(***************************************************************************)
(* main()                                                                  *)
(***************************************************************************)
LoopInit ==
    /\ send_emails = FALSE
    /\ email_sent_for_current_pass = FALSE
    /\ iss_latitude = None
    /\ iss_longitude = None
    /\ sunrise_utc = None
    /\ sunset_utc = None
    /\ current_utc_hour = None
    /\ pc = "start"
    /\ tick = NewTick(FALSE)
    /\ log = << >>
    /\ sends = 0

Init ==
    /\ SENDER_EMAIL \in CredentialValues
    /\ RECEIVER_EMAIL \in CredentialValues
    /\ EMAIL_PASSWORD \in CredentialValues
    /\ LoopInit
    /\ fn = NoCall
    /\ fn_done = FALSE
    /\ fn_result = FALSE

globals == << SENDER_EMAIL, RECEIVER_EMAIL, EMAIL_PASSWORD >>

fnvars == << fn, fn_done, fn_result >>

\* lines 116-130
Start ==
    /\ pc = "start"
    /\ send_emails' = CredentialsSet(SENDER_EMAIL, RECEIVER_EMAIL, EMAIL_PASSWORD)
    /\ email_sent_for_current_pass' = FALSE
    /\ tick' = NewTick(FALSE)
    /\ pc' = "get_iss_location"
    /\ UNCHANGED << globals, iss_latitude, iss_longitude, sunrise_utc, sunset_utc,
                    current_utc_hour, log, sends, fnvars >>

\* lines 132-133
GetIssLocation ==
    /\ pc = "get_iss_location"
    /\ Len(log) < MaxTicks
    /\ \E kind \in PositionResponseKinds, p \in LoopPositions :
         \E r \in get_iss_location(kind, p[1], p[2]) :
            /\ tick' = [tick EXCEPT !.pos = kind]
            /\ IF r.raised
               THEN /\ pc' = "crashed"
                    /\ UNCHANGED << iss_latitude, iss_longitude >>
               ELSE /\ pc' = "check_position"
                    /\ iss_latitude' = r.lat
                    /\ iss_longitude' = r.long
    /\ UNCHANGED << globals, send_emails, email_sent_for_current_pass, sunrise_utc,
                    sunset_utc, current_utc_hour, log, sends, fnvars >>

CheckPosition_ResetOnUnavailable ==
    /\ pc = "check_position"
    /\ IF iss_latitude # None /\ iss_longitude # None
       THEN /\ tick' = [tick EXCEPT !.avail = TRUE]
            /\ pc' = "is_iss_overhead"
            /\ UNCHANGED email_sent_for_current_pass
       ELSE /\ tick' = tick
            /\ email_sent_for_current_pass' = FALSE
            /\ pc' = "sleep"
    /\ UNCHANGED << globals, send_emails, iss_latitude, iss_longitude, sunrise_utc,
                    sunset_utc, current_utc_hour, log, sends, fnvars >>

\* lines 135-136 (and the fall-through to line 158 when no position)
CheckPosition ==
    /\ pc = "check_position"
    /\ IF iss_latitude # None /\ iss_longitude # None
       THEN /\ tick' = [tick EXCEPT !.avail = TRUE]
            /\ pc' = "is_iss_overhead"
       ELSE /\ tick' = tick
            /\ pc' = "sleep"
    /\ UNCHANGED << globals, send_emails, email_sent_for_current_pass, iss_latitude,
                    iss_longitude, sunrise_utc, sunset_utc, current_utc_hour, log,
                    sends, fnvars >>

IsIssOverhead_NoReset ==
    /\ pc = "is_iss_overhead"
    /\ IF is_iss_overhead(MY_LAT, MY_LONG, iss_latitude, iss_longitude)
       THEN /\ tick' = [tick EXCEPT !.checked = TRUE, !.overhead = TRUE]
            /\ pc' = "get_sunrise_sunset_times"
       ELSE /\ tick' = [tick EXCEPT !.checked = TRUE]
            /\ pc' = "sleep"
    /\ UNCHANGED << globals, send_emails, email_sent_for_current_pass, iss_latitude,
                    iss_longitude, sunrise_utc, sunset_utc, current_utc_hour, log,
                    sends, fnvars >>

\* lines 138-139 and 154-156
IsIssOverhead ==
    /\ pc = "is_iss_overhead"
    /\ IF is_iss_overhead(MY_LAT, MY_LONG, iss_latitude, iss_longitude)
       THEN /\ tick' = [tick EXCEPT !.checked = TRUE, !.overhead = TRUE]
            /\ pc' = "get_sunrise_sunset_times"
            /\ UNCHANGED email_sent_for_current_pass
       ELSE /\ tick' = [tick EXCEPT !.checked = TRUE]
            /\ email_sent_for_current_pass' = FALSE
            /\ pc' = "sleep"
    /\ UNCHANGED << globals, send_emails, iss_latitude, iss_longitude, sunrise_utc,
                    sunset_utc, current_utc_hour, log, sends, fnvars >>

\* lines 141-142
GetSunriseSunsetTimes ==
    /\ pc = "get_sunrise_sunset_times"
    /\ \E kind \in DaylightResponseKinds, w \in LoopWindows, h \in LoopHours :
         \E r \in get_sunrise_sunset_times(kind, w[1], w[2]) :
            IF r.raised
            THEN /\ tick' = [tick EXCEPT !.daylight = kind]
                 /\ pc' = "crashed"
                 /\ UNCHANGED << sunrise_utc, sunset_utc, current_utc_hour >>
            ELSE /\ tick' = [tick EXCEPT !.daylight = kind]
                 /\ sunrise_utc' = r.sunrise
                 /\ sunset_utc' = r.sunset
                 /\ current_utc_hour' = h
                 /\ pc' = "is_night"
    /\ UNCHANGED << globals, send_emails, email_sent_for_current_pass, iss_latitude,
                    iss_longitude, log, sends, fnvars >>

IsNight_FlagFirst ==
    /\ pc = "is_night"
    /\ IF is_night(sunrise_utc, sunset_utc, current_utc_hour)
       THEN IF send_emails /\ ~email_sent_for_current_pass
            THEN /\ tick' = [tick EXCEPT !.night = TRUE, !.sent = TRUE]
                 /\ sends' = sends + 1
                 /\ email_sent_for_current_pass' = TRUE
                 /\ pc' = "send"
            ELSE /\ tick' = [tick EXCEPT !.night = TRUE]
                 /\ pc' = "sleep"
                 /\ UNCHANGED << sends, email_sent_for_current_pass >>
       ELSE /\ tick' = tick
            /\ email_sent_for_current_pass' = FALSE
            /\ pc' = "sleep"
            /\ UNCHANGED sends
    /\ UNCHANGED << globals, send_emails, iss_latitude, iss_longitude, sunrise_utc,
                    sunset_utc, current_utc_hour, log, fnvars >>

IsNight_NoDayReset ==
    /\ pc = "is_night"
    /\ IF is_night(sunrise_utc, sunset_utc, current_utc_hour)
       THEN IF send_emails /\ ~email_sent_for_current_pass
            THEN /\ tick' = [tick EXCEPT !.night = TRUE, !.sent = TRUE]
                 /\ sends' = sends + 1
                 /\ pc' = "send"
                 /\ UNCHANGED email_sent_for_current_pass
            ELSE /\ tick' = [tick EXCEPT !.night = TRUE]
                 /\ pc' = "sleep"
                 /\ UNCHANGED << sends, email_sent_for_current_pass >>
       ELSE /\ tick' = tick
            /\ pc' = "sleep"
            /\ UNCHANGED << sends, email_sent_for_current_pass >>
    /\ UNCHANGED << globals, send_emails, iss_latitude, iss_longitude, sunrise_utc,
                    sunset_utc, current_utc_hour, log, fnvars >>

\* lines 144-149 (the decisions and the call) and 151-153 (the day branch)
IsNight ==
    /\ pc = "is_night"
    /\ IF is_night(sunrise_utc, sunset_utc, current_utc_hour)
       THEN IF send_emails /\ ~email_sent_for_current_pass
            THEN /\ tick' = [tick EXCEPT !.night = TRUE, !.sent = TRUE]
                 /\ sends' = sends + 1
                 /\ pc' = "send"
                 /\ UNCHANGED email_sent_for_current_pass
            ELSE /\ tick' = [tick EXCEPT !.night = TRUE]
                 /\ pc' = "sleep"
                 /\ UNCHANGED << sends, email_sent_for_current_pass >>
       ELSE /\ tick' = tick
            /\ email_sent_for_current_pass' = FALSE
            /\ pc' = "sleep"
            /\ UNCHANGED sends
    /\ UNCHANGED << globals, send_emails, iss_latitude, iss_longitude, sunrise_utc,
                    sunset_utc, current_utc_hour, log, fnvars >>

\* lines 85-111: the SMTP session succeeds, or raises inside the try block
\* and the except Exception clause prints the failure; either way the
\* function returns.  (ssl.create_default_context(), line 102, stands outside
\* the try block; it opens no connection and is taken to succeed.)
SendIssNotificationEmail ==
    /\ pc = "send"
    /\ \E outcome \in {"ok", "failed"} :
         tick' = [tick EXCEPT !.result = outcome]
    /\ pc' = "set_flag"
    /\ UNCHANGED << globals, send_emails, email_sent_for_current_pass, iss_latitude,
                    iss_longitude, sunrise_utc, sunset_utc, current_utc_hour, log,
                    sends, fnvars >>

SetFlag_OnlyOnSuccess ==
    /\ pc = "set_flag"
    /\ email_sent_for_current_pass' = (tick.result = "ok")
    /\ pc' = "sleep"
    /\ UNCHANGED << globals, send_emails, iss_latitude, iss_longitude, sunrise_utc,
                    sunset_utc, current_utc_hour, tick, log, sends, fnvars >>

\* line 150
SetFlag ==
    /\ pc = "set_flag"
    /\ email_sent_for_current_pass' = TRUE
    /\ pc' = "sleep"
    /\ UNCHANGED << globals, send_emails, iss_latitude, iss_longitude, sunrise_utc,
                    sunset_utc, current_utc_hour, tick, log, sends, fnvars >>

\* lines 158-159, and back to line 132
Sleep ==
    /\ pc = "sleep"
    /\ log' = Append(log, LogEntry(tick))
    /\ tick' = NewTick(email_sent_for_current_pass)
    /\ pc' = "get_iss_location"
    /\ UNCHANGED << globals, send_emails, email_sent_for_current_pass, iss_latitude,
                    iss_longitude, sunrise_utc, sunset_utc, current_utc_hour, sends,
                    fnvars >>

Next ==
    \/ Start
    \/ GetIssLocation
    \/ CheckPosition
    \/ IsIssOverhead
    \/ GetSunriseSunsetTimes
    \/ IsNight
    \/ SendIssNotificationEmail
    \/ SetFlag
    \/ Sleep

Spec == Init /\ [][Next]_vars

(***************************************************************************)
(* The pure predicates on their own.                                       *)
(***************************************************************************)
OverheadCalls ==
    { [ name |-> "is_iss_overhead",
        args |-> << la, lo, la + dlat, lo + dlong >> ] :
        la \in {0, MY_LAT}, lo \in {0, MY_LONG}, dlat \in Deltas, dlong \in Deltas }

NightCalls ==
    { [ name |-> "is_night", args |-> << sr, ss, h >> ] :
        sr \in Hours \cup {None}, ss \in Hours \cup {None}, h \in Hours }

InitFn ==
    /\ SENDER_EMAIL = NoneStr
    /\ RECEIVER_EMAIL = NoneStr
    /\ EMAIL_PASSWORD = NoneStr
    /\ LoopInit
    /\ fn \in OverheadCalls \cup NightCalls
    /\ fn_done = FALSE
    /\ fn_result = FALSE

loopvars == << SENDER_EMAIL, RECEIVER_EMAIL, EMAIL_PASSWORD, send_emails,
               email_sent_for_current_pass, iss_latitude, iss_longitude,
               sunrise_utc, sunset_utc, current_utc_hour, pc, tick, log, sends >>

ApplyIsIssOverhead ==
    /\ fn.name = "is_iss_overhead"
    /\ ~fn_done
    /\ fn_done' = TRUE
    /\ fn_result' = is_iss_overhead(fn.args[1], fn.args[2], fn.args[3], fn.args[4])
    /\ UNCHANGED << fn, loopvars >>

ApplyIsNight ==
    /\ fn.name = "is_night"
    /\ ~fn_done
    /\ fn_done' = TRUE
    /\ fn_result' = is_night(fn.args[1], fn.args[2], fn.args[3])
    /\ UNCHANGED << fn, loopvars >>

NextFn ==
    \/ ApplyIsIssOverhead
    \/ ApplyIsNight

SpecFn == InitFn /\ [][NextFn]_vars

(***************************************************************************)
(* Properties.                                                             *)
(***************************************************************************)
Configured == CredentialsSet(SENDER_EMAIL, RECEIVER_EMAIL, EMAIL_PASSWORD)

Ticks == 1 .. Len(log)

ON(i) == log[i].kind = "ON"

LogKinds == [ i \in Ticks |-> log[i].kind ]

SentTicks == { i \in Ticks : log[i].sent }

PositionFailures == {"transport_error", "missing_keys", "non_numeric", "invalid_json"}

DaylightFailed == tick.daylight # "none" /\ (sunrise_utc = None \/ sunset_utc = None)

\* C1: with credentials configured and every position fetch succeeding, a
\* completed tick invoked the notifier exactly when it was overhead+night
\* and the tick before it was not (the first tick of a maximal run of
\* overhead+night ticks); the ticks [ON, ON, OD, ON] give exactly 2 sends.
C1_OncePerRun ==
    (Configured /\ \A i \in Ticks : log[i].kind # "NA") =>
        /\ \A i \in Ticks : log[i].sent <=> (ON(i) /\ (i = 1 \/ ~ON(i - 1)))
        /\ LogKinds = << "ON", "ON", "OD", "ON" >> =>
              (sends = 2 /\ SentTicks = {1, 4})

C1_Witness ==
    /\ Configured
    /\ LogKinds = << "ON", "ON", "OD", "ON" >>
    /\ sends = 2

\* C2: with a credential absent or empty the notifier is never invoked and
\* the loop never stops.
C2_NoCredentialsNoSendNoStop ==
    ~Configured => (sends = 0 /\ pc # "send" /\ pc # "crashed")

\* C3: is_night gives the listed results: window (6, 18): hour 12 day,
\* hour 3 night, hour 20 night; window (18, 6): hour 20 night, hour 10 day.
C3_NightTable ==
    (fn.name = "is_night" /\ fn_done) =>
        /\ fn.args = << 6, 18, 12 >> => ~fn_result
        /\ fn.args = << 6, 18, 3 >> => fn_result
        /\ fn.args = << 6, 18, 20 >> => fn_result
        /\ fn.args = << 18, 6, 20 >> => fn_result
        /\ fn.args = << 18, 6, 10 >> => ~fn_result

\* C4: is_iss_overhead is true exactly when both coordinate differences are
\* strictly inside (-5, 5) degrees; a difference of exactly 5 gives false.
C4_OverheadStrict ==
    (fn.name = "is_iss_overhead" /\ fn_done) =>
        LET dlat == fn.args[3] - fn.args[1]
            dlong == fn.args[4] - fn.args[2]
        IN  fn_result <=> ( /\ -OverheadRange < dlat /\ dlat < OverheadRange
                            /\ -OverheadRange < dlong /\ dlong < OverheadRange )

C4_Witness ==
    /\ fn.name = "is_iss_overhead"
    /\ fn_done
    /\ fn.args[3] - fn.args[1] = OverheadRange
    /\ fn.args[4] - fn.args[2] = 0
    /\ ~fn_result

\* C5: when the daylight fetch of a tick returned no sunrise or no sunset,
\* is_night is true for every hour, the tick takes the night branch, and
\* with credentials set and the flag false it invokes the notifier.
C5_DaylightFailureIsNight ==
    (DaylightFailed /\ pc \in {"is_night", "send", "set_flag", "sleep"}) =>
        /\ \A h \in Hours : is_night(sunrise_utc, sunset_utc, h)
        /\ pc # "is_night" =>
              /\ tick.night
              /\ (send_emails /\ ~tick.before) => tick.sent

C5_Witness ==
    /\ pc = "send"
    /\ DaylightFailed
    /\ tick.daylight = "transport_error"
    /\ tick.sent

\* C6: every failure of the position fetch, transport or malformed response,
\* yields (None, None) and the loop goes on.
C6_FetchFailureIsUnavailable ==
    tick.pos \in PositionFailures =>
        /\ pc \in {"check_position", "sleep"}
        /\ iss_latitude = None
        /\ iss_longitude = None

\* C7: after a send, failed or not, the loop goes on, the flag is true at
\* the end of the tick, and no tick that follows while it stays overhead and
\* night sends again.
C7_FailedSendNotRetried ==
    /\ tick.result # "none" => pc \in {"set_flag", "sleep"}
    /\ (pc = "sleep" /\ tick.sent) =>
          (tick.result \in {"ok", "failed"} /\ email_sent_for_current_pass)
    /\ \A i \in Ticks : \A j \in Ticks :
          (i < j /\ log[i].sent /\ \A k \in (i + 1) .. j : ON(k)) => ~log[j].sent

C7_Witness ==
    /\ Len(log) >= 2
    /\ log[1].result = "failed"
    /\ ON(2)
    /\ ~log[2].sent

\* C8 as stated: whenever a send is in progress the flag is already true.
C8_FlagSetBeforeSend ==
    pc = "send" => email_sent_for_current_pass

\* C8 amended: the flag is still false while the send is in progress and
\* when it has just returned; it is set by the next statement, whatever the
\* send's outcome, so it is true at the end of the tick.
C8_FlagSetAfterSend ==
    /\ pc = "send" => (~email_sent_for_current_pass /\ tick.result = "none")
    /\ pc = "set_flag" => (~email_sent_for_current_pass /\ tick.result # "none")
    /\ (pc = "sleep" /\ tick.sent) => email_sent_for_current_pass

C8_Witness ==
    /\ pc = "set_flag"
    /\ tick.result = "failed"
    /\ ~email_sent_for_current_pass

\* C9: the flag is false at program start, and false at the end of every
\* tick that obtained a position and was not both overhead and night.
C9_FlagReset ==
    /\ pc = "start" => ~email_sent_for_current_pass
    /\ (pc = "sleep" /\ tick.avail /\ ~(tick.overhead /\ tick.night)) =>
          ~email_sent_for_current_pass

C9_Witness ==
    /\ pc = "sleep"
    /\ tick.before
    /\ tick.avail
    /\ tick.checked
    /\ ~tick.overhead
    /\ ~email_sent_for_current_pass

\* C10: a tick without a position checks nothing, fetches no daylight, sends
\* nothing and leaves the flag as it was; two overhead+night ticks with only
\* such ticks between them: the later one does not send.
C10_UnavailableTickIsNoOp ==
    /\ (pc = "sleep" /\ ~tick.avail) =>
          /\ tick.pos \in PositionFailures
          /\ ~tick.checked
          /\ tick.daylight = "none"
          /\ ~tick.sent
          /\ email_sent_for_current_pass = tick.before
    /\ \A i \in Ticks : \A j \in Ticks :
          ( /\ i < j /\ ON(i) /\ ON(j)
            /\ \A k \in (i + 1) .. (j - 1) : log[k].kind = "NA" ) => ~log[j].sent

C10_Witness ==
    /\ Len(log) >= 3
    /\ ON(1) /\ log[1].sent
    /\ log[2].kind = "NA"
    /\ ON(3) /\ ~log[3].sent

====
